---- MODULE Spec2Model ----
(***************************************************************************)
(* Model of the ATECC608A example application (src/atecc608a/main.c):      *)
(* main(), the interactive command loop, the confirmation prompt and the   *)
(* built-in self-test sequence, together with the C library functions the  *)
(* command parser relies on (scanf %Ns, strlen, strchr, strrchr, strcmp,   *)
(* strncmp, atoi and the conversion to uint16_t).                          *)
(*                                                                         *)
(* A C string is modelled as a sequence of one-character strings without   *)
(* the terminating NUL.  The secure-element driver and the PSA library are *)
(* external: every status they return is a nondeterministic input.         *)
(* Standard input is the serial console of the board: a read blocks until  *)
(* the user has typed a line, and the console never reports end-of-file.   *)
(***************************************************************************)
EXTENDS Integers, Sequences, FiniteSets, TLC

(***************************************************************************)
(* Bounds of the model.                                                    *)
(***************************************************************************)
\* Longest run of filler characters appended to a keyword when building the
\* malformed lines a user may type.
MaxPad == 3
\* Out-of-range slot numbers 16 .. 15 + MaxOver are typed as arguments (as
\* well as the fixed 16-bit boundary values).
MaxOver == 1
\* Number of commands a session reads before the model stops following it.
MaxCommands == 2

(***************************************************************************)
(* Program constants.                                                      *)
(***************************************************************************)
\* scanf("%79s", command)
CommandWidth == 79
\* scanf("%1s", confirmation)
ConfirmationWidth == 1
\* if (slot > 15)
MaxSlot == 15
\* uint16_t
UInt16Mod == 65536
\* const uint16_t bad_key_id = 16
bad_key_id == 16
\* test_write_read_slot(8)
WriteReadSlot == 8
\* psa_key_slot_number_t atecc608a_private_key_slot = 0
DefaultPrivateSlot == 0
\* psa_key_slot_number_t atecc608a_public_key_slot = 9
DefaultPublicSlot == 9

(***************************************************************************)
(* C strings and the C library.                                            *)
(***************************************************************************)
Digits == <<"0", "1", "2", "3", "4", "5", "6", "7", "8", "9">>

IsDigit(c) == \E i \in 1..Len(Digits) : Digits[i] = c

DigitVal(c) == (CHOOSE i \in 1..Len(Digits) : Digits[i] = c) - 1

IsSpace(c) == c \in {" ", "\n", "\t", "\r"}

\* The part of s from index i (1-based) to its end: the C pointer s + (i-1).
From(s, i) == IF i > Len(s) THEN <<>> ELSE SubSeq(s, i, Len(s))

\* strlen(s)
strlen(s) == Len(s)

\* strcmp(a, b) == 0
strcmp0(a, b) == a = b

\* strncmp(a, b, n) == 0: the first n characters agree, or the strings end
\* together before n characters.
strncmp0(a, b, n) ==
    LET m == IF Len(a) < Len(b) THEN Len(a) ELSE Len(b)
        k == IF n < m THEN n ELSE m
    IN  /\ \A i \in 1..k : a[i] = b[i]
        /\ (k < n => Len(a) = Len(b))

\* strchr(s, c): index of the first c in s, 0 for NULL.
strchr(s, c) ==
    IF \E i \in 1..Len(s) : s[i] = c
    THEN CHOOSE i \in 1..Len(s) : s[i] = c /\ \A j \in 1..(i - 1) : s[j] # c
    ELSE 0

\* strrchr(s, c): index of the last c in s, 0 for NULL.
strrchr(s, c) ==
    IF \E i \in 1..Len(s) : s[i] = c
    THEN CHOOSE i \in 1..Len(s) : s[i] = c /\ \A j \in (i + 1)..Len(s) : s[j] # c
    ELSE 0

\* Value of the longest run of decimal digits at the front of s, acc being
\* the value of the digits already consumed.
RECURSIVE AtoiDigits(_, _)
AtoiDigits(s, acc) ==
    IF s = <<>> \/ ~IsDigit(Head(s))
    THEN acc
    ELSE AtoiDigits(Tail(s), 10 * acc + DigitVal(Head(s)))

\* s without its leading white space.
RECURSIVE SkipSpace(_)
SkipSpace(s) == IF s # <<>> /\ IsSpace(Head(s)) THEN SkipSpace(Tail(s)) ELSE s

\* atoi(s): optional white space, optional sign, decimal digits; conversion
\* stops at the first character that is not a digit, 0 when there is none.
atoi(s) ==
    LET t == SkipSpace(s)
    IN  IF t = <<>> THEN 0
        ELSE IF Head(t) = "-" THEN 0 - AtoiDigits(Tail(t), 0)
        ELSE IF Head(t) = "+" THEN AtoiDigits(Tail(t), 0)
        ELSE AtoiDigits(t, 0)

\* (uint16_t) x
ToUInt16(x) == x % UInt16Mod

\* Number of characters of s before its first white-space character.
RECURSIVE TokenLen(_)
TokenLen(s) == IF s = <<>> \/ IsSpace(Head(s)) THEN 0 ELSE 1 + TokenLen(Tail(s))

\* scanf("%<width>s", buf) on the unread input: skips white space, stores at
\* most width characters of the next token, leaves the rest unread.
ScanfS(width, input) ==
    LET t == SkipSpace(input)
        n == IF TokenLen(t) < width THEN TokenLen(t) ELSE width
    IN  [str |-> SubSeq(t, 1, n), rest |-> From(t, n + 1)]

\* scanf would block: no token is waiting in the unread input.
NoToken(input) == SkipSpace(input) = <<>>

(***************************************************************************)
(* The string literals of interactive_loop.                                *)
(***************************************************************************)
kw_info ==
    <<"i", "n", "f", "o">>

kw_exit ==
    <<"e", "x", "i", "t">>

kw_test ==
    <<"t", "e", "s", "t">>

kw_generate_private ==
    <<"g", "e", "n", "e", "r", "a", "t", "e", "_", "p", "r", "i", "v", "a", "t", "e">>

kw_generate_public ==
    <<"g", "e", "n", "e", "r", "a", "t", "e", "_", "p", "u", "b", "l", "i", "c">>

kw_write_lock_config ==
    <<"w", "r", "i", "t", "e", "_", "l", "o", "c", "k", "_", "c", "o", "n", "f", "i", "g">>

kw_lock_data ==
    <<"l", "o", "c", "k", "_", "d", "a", "t", "a">>

kw_private_slot ==
    <<"p", "r", "i", "v", "a", "t", "e", "_", "s", "l", "o", "t">>

kw_public_slot ==
    <<"p", "u", "b", "l", "i", "c", "_", "s", "l", "o", "t">>

\* "generate_private=0"
tpl_generate_private == kw_generate_private \o <<"=", "0">>

\* "generate_public=0_9"
tpl_generate_public == kw_generate_public \o <<"=", "0", "_", "9">>

\* "private_slot=0"
tpl_private_slot == kw_private_slot \o <<"=", "0">>

\* "public_slot=9"
tpl_public_slot == kw_public_slot \o <<"=", "9">>

(***************************************************************************)
(* Calls into the external driver and library.  A call is recorded with    *)
(* the function called, the function of main.c that makes the call, the    *)
(* slot number passed (a set: empty for a call that takes no slot) and the *)
(* public key passed in or produced.                                       *)
(***************************************************************************)
PSA_SUCCESS == "PSA_SUCCESS"

\* Error statuses the driver may return.
Errors == {"PSA_ERROR_HARDWARE_FAILURE", "PSA_ERROR_INVALID_ARGUMENT"}

Statuses == {PSA_SUCCESS} \cup Errors

NoKey == [pubkey |-> "none", pubkey_len |-> 0]

\* What p_export may store in pubkey and pubkey_len.
ExportedKeys == {[pubkey |-> "key_a", pubkey_len |-> 64],
                 [pubkey |-> "key_b", pubkey_len |-> 65]}

\* What p_export may do: fail, or succeed and store a key.
ExportOutcomes ==
    {[status |-> e, key |-> NoKey] : e \in Errors}
    \cup {[status |-> PSA_SUCCESS, key |-> k] : k \in ExportedKeys}

Call(fn, by, slot, key) == [fn |-> fn, by |-> by, slot |-> slot, key |-> key]

(***************************************************************************)
(* The built-in self-tests.  Each test function is the sequence of its     *)
(* asserted steps; a step passes when the call returns the status the      *)
(* assertion expects, and a failed assertion jumps to the exit label.      *)
(***************************************************************************)
\* An asserted call; ok tells whether it returned the expected status.
Step(fn, by, slot, expected) ==
    [fn |-> fn, by |-> by, slot |-> slot, key |-> NoKey, expected |-> expected,
     ok |-> TRUE]

\* ASSERT_SUCCESS_PSA(expression): the status it leaves and whether it
\* jumps to the exit label.
ASSERT_SUCCESS_PSA(result) ==
    [status |-> result, exit |-> result # PSA_SUCCESS]

\* ASSERT_STATUS_PSA over the steps of one function: runs the steps in order
\* up to and including the first one that fails.  fail is the index of the
\* step whose result differs from the expected one (none when out of range).
RECURSIVE AssertedSteps(_, _, _)
AssertedSteps(steps, i, fail) ==
    IF i > Len(steps) THEN [calls |-> <<>>, passed |-> TRUE]
    ELSE IF i = fail
         THEN [calls |-> <<[steps[i] EXCEPT !.ok = FALSE]>>, passed |-> FALSE]
    ELSE LET r == AssertedSteps(steps, i + 1, fail)
         IN  [calls |-> <<steps[i]>> \o r.calls, passed |-> r.passed]

test_hash_sha256 ==
    <<Step("atecc608a_hash_sha256", "test_hash_sha256", {}, PSA_SUCCESS),
      Step("atecc608a_hash_sha256", "test_hash_sha256", {}, PSA_SUCCESS)>>

check_config_locked ==
    <<Step("atecc608a_check_zone_locked(LOCK_ZONE_CONFIG)", "run_tests", {}, PSA_SUCCESS)>>

test_generate_import(private, public) ==
    LET by == "test_generate_import"
    IN  <<Step("p_generate", by, {bad_key_id}, "PSA_ERROR_INVALID_ARGUMENT"),
          Step("p_generate", by, {private}, "PSA_ERROR_NOT_SUPPORTED"),
          Step("p_generate", by, {private}, "PSA_ERROR_NOT_SUPPORTED"),
          Step("p_generate", by, {private}, "PSA_ERROR_BUFFER_TOO_SMALL"),
          Step("p_generate", by, {private}, PSA_SUCCESS),
          Step("p_generate", by, {private}, PSA_SUCCESS),
          Step("p_generate", by, {private}, PSA_SUCCESS),
          Step("p_import", by, {public}, PSA_SUCCESS),
          Step("p_import", by, {public}, "PSA_ERROR_INVALID_ARGUMENT")>>

test_export_import(private, public) ==
    LET by == "test_export_import"
    IN  <<Step("p_export", by, {private}, PSA_SUCCESS),
          Step("p_import", by, {public}, PSA_SUCCESS)>>

test_sign_verify(private, public) ==
    LET by == "test_sign_verify"
    IN  <<Step("p_generate", by, {private}, PSA_SUCCESS),
          Step("p_import", by, {public}, PSA_SUCCESS),
          Step("p_sign", by, {private}, PSA_SUCCESS),
          Step("p_verify", by, {public}, PSA_SUCCESS)>>

test_psa_import_verify(private) ==
    LET by == "test_psa_import_verify"
    IN  <<Step("p_sign", by, {private}, PSA_SUCCESS),
          Step("p_export", by, {private}, PSA_SUCCESS),
          Step("psa_allocate_key", by, {}, PSA_SUCCESS),
          Step("psa_set_key_policy", by, {}, PSA_SUCCESS),
          Step("psa_import_key", by, {}, PSA_SUCCESS),
          Step("psa_asymmetric_verify", by, {}, PSA_SUCCESS)>>

check_data_locked ==
    <<Step("atecc608a_check_zone_locked(LOCK_ZONE_DATA)", "run_tests", {}, PSA_SUCCESS)>>

test_write_read_slot(slot) ==
    LET by == "test_write_read_slot"
    IN  <<Step("atecc608a_random_32_bytes", by, {}, PSA_SUCCESS),
          Step("atecc608a_write", by, {slot}, PSA_SUCCESS),
          Step("atecc608a_read", by, {slot}, PSA_SUCCESS),
          Step("memcmp", by, {}, PSA_SUCCESS)>>

\* The test functions run_tests asserts, in its order.
TestSequence(private, public) ==
    <<test_hash_sha256,
      check_config_locked,
      test_generate_import(private, public),
      test_export_import(private, public),
      test_sign_verify(private, public),
      test_psa_import_verify(private),
      check_data_locked,
      test_write_read_slot(WriteReadSlot)>>

RECURSIVE TotalLen(_)
TotalLen(seqs) == IF seqs = <<>> THEN 0 ELSE Len(Head(seqs)) + TotalLen(Tail(seqs))

\* Number of asserted steps of a complete run of the tests.
NumTestSteps == TotalLen(TestSequence(DefaultPrivateSlot, DefaultPublicSlot))

\* run_tests: ASSERT_SUCCESS_PSA on each test function in turn; the first
\* one that does not pass ends the run.  fail counts the asserted steps of
\* the whole run from 1; a value above NumTestSteps means none fails.
\* What a test function returns: its status after its last assertion.
TestStatus(passed) ==
    IF passed THEN PSA_SUCCESS ELSE "PSA_ERROR_HARDWARE_FAILURE"

\* run_tests going on to the next test function whatever the last returned.
RECURSIVE RunFromKeepGoing(_, _)
RunFromKeepGoing(tests, fail) ==
    IF tests = <<>> THEN [calls |-> <<>>, passed |-> TRUE]
    ELSE LET t == AssertedSteps(Head(tests), 1, fail)
             r == RunFromKeepGoing(Tail(tests), fail - Len(Head(tests)))
         IN  [calls |-> t.calls \o r.calls, passed |-> t.passed /\ r.passed]

RECURSIVE RunFrom(_, _)
RunFrom(tests, fail) ==
    IF tests = <<>> THEN [calls |-> <<>>, passed |-> TRUE]
    ELSE LET t == AssertedSteps(Head(tests), 1, fail)
         IN  IF ASSERT_SUCCESS_PSA(TestStatus(t.passed)).exit THEN t
             ELSE LET r == RunFrom(Tail(tests), fail - Len(Head(tests)))
                  IN  [calls |-> t.calls \o r.calls, passed |-> r.passed]

run_tests(private, public, fail) == RunFrom(TestSequence(private, public), fail)

(***************************************************************************)
(* print_device_info.                                                      *)
(***************************************************************************)
\* atecc608a_print_locked_zones: one asserted driver call per zone and slot.
print_locked_zones ==
    LET by == "atecc608a_print_locked_zones"
    IN  <<Step("atecc608a_init", by, {}, PSA_SUCCESS),
          Step("atcab_is_locked(LOCK_ZONE_CONFIG)", by, {}, PSA_SUCCESS),
          Step("atcab_is_locked(LOCK_ZONE_DATA)", by, {}, PSA_SUCCESS)>>
        \o [i \in 1..(MaxSlot + 1) |->
               Step("atcab_is_slot_locked", by, {i - 1}, PSA_SUCCESS)]

\* print_device_info calls its three printing functions whatever they
\* return; fail is the failing step of atecc608a_print_locked_zones.
print_device_info(fail) ==
    <<Step("atecc608a_print_serial_number", "print_device_info", {}, PSA_SUCCESS),
      Step("atecc608a_print_config_zone", "print_device_info", {}, PSA_SUCCESS)>>
    \o AssertedSteps(print_locked_zones, 1, fail).calls

(***************************************************************************)
(* The command handlers of interactive_loop.  A handler yields what the    *)
(* call of interactive_loop did: its return value ("true", "false", or     *)
(* "fault" when it did not return), the driver calls it made, the session  *)
(* slots it leaves and the message it printed last.                        *)
(***************************************************************************)
Res(ret, calls, private, public, msg) ==
    [ret |-> ret, calls |-> calls, private |-> private, public |-> public,
     msg |-> msg]

\* The range test with its bound one too high.
SlotInvalidAboveSixteen(slot) == slot > MaxSlot + 1

\* if (slot > 15)
SlotInvalid(slot) == slot > MaxSlot

\* What dereferencing the pointer NULL + 1 in atoi can do: the access
\* faults, or atoi converts whatever bytes are mapped at that address.
NullPlusOne ==
    {[fault |-> TRUE, value |-> 0]}
    \cup {[fault |-> FALSE, value |-> v] :
             v \in {0, MaxSlot, MaxSlot + 1, UInt16Mod - 1, UInt16Mod + 1}}

\* atoi(arg) in place of atoi(arg + 1): the conversion starts at the '='.
AtoiArgAtEquals(command) ==
    LET arg == strchr(command, "=")
    IN  IF arg = 0 THEN NullPlusOne
        ELSE {[fault |-> FALSE, value |-> atoi(From(command, arg))]}

\* atoi(arg + 1) where arg = strchr(command, '='): the possible outcomes.
AtoiArg(command) ==
    LET arg == strchr(command, "=")
    IN  IF arg = 0 THEN NullPlusOne
        ELSE {[fault |-> FALSE, value |-> atoi(From(command, arg + 1))]}

\* strchr in place of strrchr: the conversion starts after the first '_'.
AtoiFirstUnderscore(command) ==
    LET us == strchr(command, "_")
    IN  IF us = 0 THEN NullPlusOne
        ELSE {[fault |-> FALSE, value |-> atoi(From(command, us + 1))]}

\* atoi(strrchr(command, '_') + 1): the possible outcomes.
AtoiLastUnderscore(command) ==
    LET us == strrchr(command, "_")
    IN  IF us = 0 THEN NullPlusOne
        ELSE {[fault |-> FALSE, value |-> atoi(From(command, us + 1))]}

\* The if / else-if chain of interactive_loop: the branch a command takes.
Dispatch(command) ==
    IF strcmp0(command, kw_info) THEN "info"
    ELSE IF strcmp0(command, kw_exit) THEN "exit"
    ELSE IF strcmp0(command, kw_test) THEN "test"
    ELSE IF strncmp0(command, kw_generate_private, strlen(kw_generate_private) - 1)
         THEN "generate_private"
    ELSE IF strncmp0(command, kw_generate_public, strlen(kw_generate_public) - 1)
         THEN "generate_public"
    ELSE IF strcmp0(command, kw_write_lock_config) THEN "write_lock_config"
    ELSE IF strcmp0(command, kw_lock_data) THEN "lock_data"
    ELSE IF strncmp0(command, kw_private_slot, strlen(kw_private_slot) - 1)
         THEN "private_slot"
    ELSE IF strncmp0(command, kw_public_slot, strlen(kw_public_slot) - 1)
         THEN "public_slot"
    ELSE "unrecognized"

\* The length test of the generate_private branch without its "- 1".
GeneratePrivateSlotLongOnly(command) ==
    LET len == strlen(command)
        arg == strchr(command, "=")
    IN  IF len > strlen(tpl_generate_private) /\ arg # 0
        THEN ToUInt16(atoi(From(command, arg + 1)))
        ELSE 0

\* The slot of the generate_private branch.
GeneratePrivateSlot(command) ==
    LET len == strlen(command)
        arg == strchr(command, "=")
    IN  IF len > strlen(tpl_generate_private) - 1 /\ arg # 0
        THEN ToUInt16(atoi(From(command, arg + 1)))
        ELSE 0

\* The generate_private branch also making the slot it generated in the
\* private slot of the session.
HandleGeneratePrivateSelectsSlot(command, private, public, status) ==
    LET slot == GeneratePrivateSlot(command)
        call == Call("p_generate", "interactive_loop", {slot}, NoKey)
    IN  IF SlotInvalid(slot)
        THEN Res("false", <<>>, private, public, "invalid slot")
        ELSE IF status # PSA_SUCCESS
        THEN Res("false", <<call>>, private, public, "failed")
        ELSE Res("false", <<call>>, slot, public, "done")

\* The generate_private branch; status is what p_generate returns.
HandleGeneratePrivate(command, private, public, status) ==
    LET slot == GeneratePrivateSlot(command)
        call == Call("p_generate", "interactive_loop", {slot}, NoKey)
    IN  IF SlotInvalid(slot)
        THEN Res("false", <<>>, private, public, "invalid slot")
        ELSE IF status # PSA_SUCCESS
        THEN Res("false", <<call>>, private, public, "failed")
        ELSE Res("false", <<call>>, private, public, "done")

\* The generate_public branch; a and b are the outcomes of the two atoi
\* calls, exported and import what p_export and p_import return.
HandleGeneratePublic(command, private, public, a, b, exported, import) ==
    IF strlen(command) <= strlen(tpl_generate_public) - 1
    THEN Res("false", <<>>, private, public, "missing argument")
    ELSE IF a.fault \/ b.fault
    THEN Res("fault", <<>>, private, public, "none")
    ELSE LET slot_private == ToUInt16(a.value)
             slot_public == ToUInt16(b.value)
             export == Call("p_export", "interactive_loop", {slot_private},
                            exported.key)
             imp == Call("p_import", "interactive_loop", {slot_public},
                         exported.key)
         IN  IF SlotInvalid(slot_private) \/ SlotInvalid(slot_public)
             THEN Res("false", <<>>, private, public, "invalid slot")
             ELSE IF exported.status # PSA_SUCCESS
             THEN Res("false",
                      <<Call("p_export", "interactive_loop", {slot_private}, NoKey)>>,
                      private, public, "failed")
             ELSE IF import # PSA_SUCCESS
             THEN Res("false", <<export, imp>>, private, public, "failed")
             ELSE Res("false", <<export, imp>>, private, public, "done")

\* prompt_confirmation taking every answer but 'n' for a yes.
prompt_confirmation_unless_n(input) ==
    LET in == ScanfS(ConfirmationWidth, input)
    IN  [yes |-> in.str[1] # "n",
         confirmation |-> in.str, rest |-> in.rest]

\* prompt_confirmation: reads one character of the next token.
prompt_confirmation(input) ==
    LET in == ScanfS(ConfirmationWidth, input)
    IN  [yes |-> in.str[1] = "y" \/ in.str[1] = "Y",
         confirmation |-> in.str, rest |-> in.rest]

\* The write_lock_config and lock_data branches; fn is the irreversible
\* driver operation, yes the value of prompt_confirmation.
HandleLock(fn, private, public, yes, status) ==
    LET call == Call(fn, "interactive_loop", {}, NoKey)
    IN  IF ~yes
        THEN Res("false", <<>>, private, public, "none")
        ELSE IF status # PSA_SUCCESS
        THEN Res("false", <<call>>, private, public, "failed")
        ELSE Res("false", <<call>>, private, public, "done")

\* The private_slot branch; a is the outcome of atoi(arg + 1).
HandlePrivateSlot(command, private, public, a) ==
    IF strlen(command) <= strlen(tpl_private_slot) - 1
    THEN Res("false", <<>>, private, public, "missing argument")
    ELSE IF a.fault
    THEN Res("fault", <<>>, private, public, "none")
    ELSE LET slot == ToUInt16(a.value)
         IN  IF SlotInvalid(slot)
             THEN Res("false", <<>>, private, public, "invalid slot")
             ELSE Res("false", <<>>, slot, public, "slot set")

\* The public_slot branch; a is the outcome of atoi(arg + 1).
HandlePublicSlot(command, private, public, a) ==
    IF strlen(command) <= strlen(tpl_public_slot) - 1
    THEN Res("false", <<>>, private, public, "missing argument")
    ELSE IF a.fault
    THEN Res("fault", <<>>, private, public, "none")
    ELSE LET slot == ToUInt16(a.value)
         IN  IF SlotInvalid(slot)
             THEN Res("false", <<>>, private, public, "invalid slot")
             ELSE Res("false", <<>>, private, slot, "slot set")

(***************************************************************************)
(* What the user may type.                                                 *)
(***************************************************************************)
RECURSIVE Dec(_)
Dec(n) == IF n < 10 THEN <<Digits[n + 1]>>
          ELSE Dec(n \div 10) \o <<Digits[(n % 10) + 1]>>

\* The decimal numeral of an integer.
Numeral(n) == IF n < 0 THEN <<"-">> \o Dec(0 - n) ELSE Dec(n)

Pad(k) == [i \in 1..k |-> "x"]

\* A keyword without its last character.
Shorten(kw) == SubSeq(kw, 1, Len(kw) - 1)

\* Integers outside 0..15: just above the range, negative, and around the
\* 16-bit boundary.
OutOfRange ==
    ((MaxSlot + 1)..(MaxSlot + MaxOver))
    \cup {-1, 0 - UInt16Mod, UInt16Mod}

ArgValues == (0..MaxSlot) \cup OutOfRange

SampleValues == {3, MaxSlot + 1}

OneArgKeywords == {kw_generate_private, kw_private_slot, kw_public_slot}

SlotKeywords == OneArgKeywords \cup {kw_generate_public}

ExactLines == {kw_info, kw_exit, kw_test, kw_write_lock_config, kw_lock_data}

\* keyword=N
OneArgLines ==
    {kw \o <<"=">> \o Numeral(n) : kw \in OneArgKeywords, n \in ArgValues}

\* Every valid slot as first and as second argument; every out-of-range
\* value as first and as second argument.
ArgPairs ==
    {<<a, MaxSlot - a>> : a \in 0..MaxSlot}
    \cup {<<a, DefaultPublicSlot>> : a \in OutOfRange \cup {DefaultPrivateSlot}}
    \cup {<<DefaultPrivateSlot, b>> : b \in OutOfRange}
    \cup {<<a, a>> : a \in SampleValues}

\* keyword=A_B
TwoArgLines ==
    {kw_generate_public \o <<"=">> \o Numeral(p[1]) \o <<"_">> \o Numeral(p[2]) :
        p \in ArgPairs}
    \cup {kw \o <<"=", "3", "_", "4">> : kw \in OneArgKeywords}

\* The keyword one character short, with arguments.
ShortenedLines ==
    {Shorten(kw) \o <<"=">> \o Numeral(n) : kw \in OneArgKeywords, n \in SampleValues}
    \cup {Shorten(kw_generate_public) \o <<"=">> \o Numeral(n) \o <<"_">> \o Numeral(n + 1) :
            n \in SampleValues}

\* Keywords, whole or cut short, followed by filler; with no argument text,
\* with an empty or non-numeric argument, with no '_' after the '='.
MalformedLines ==
    {kw \o Pad(k) : kw \in SlotKeywords, k \in 0..MaxPad}
    \cup {Shorten(kw) \o Pad(k) : kw \in SlotKeywords, k \in {0, MaxPad}}
    \cup {kw \o <<"=">> \o Pad(k) : kw \in SlotKeywords, k \in 0..1}
    \cup {kw \o <<"_", "3", "_", "4">> : kw \in SlotKeywords}
    \cup {kw_generate_public \o <<"=", "3">> \o Pad(k) : k \in 0..MaxPad}

\* Lines no branch of interactive_loop is written for.
OtherLines ==
    {Shorten(Shorten(kw)) \o <<"=", "3">> : kw \in SlotKeywords}
    \cup {kw \o Pad(1) : kw \in ExactLines}
    \cup {Shorten(kw_exit), <<"h", "e", "l", "p">>}

\* A line that exactly fills the command buffer, and lines longer than it:
\* the buffer-filling text followed by a command, or by a command and the
\* answer to its prompt.
LongLines ==
    {Pad(CommandWidth) \o t :
        t \in {<<>>, kw_exit, kw_lock_data \o <<" ", "y">>}}

Lines ==
    ExactLines \cup OneArgLines \cup TwoArgLines \cup ShortenedLines
    \cup MalformedLines \cup OtherLines \cup LongLines

\* Answers to the [y/n] prompt.
Answers ==
    {<<"y">>, <<"Y">>, <<"n">>, <<"N">>, <<"y", "e", "s">>, <<"n", "o">>,
     <<"x">>, <<"0">>}

(***************************************************************************)
(* The state of the program.                                               *)
(***************************************************************************)
VARIABLES
    pc,                          \* where main is: "info", "init", "tests",
                                 \* "loop", "done" (returned), "fault"
    status,                      \* main's status
    exit_application,            \* main's exit_application
    atecc608a_private_key_slot,
    atecc608a_public_key_slot,
    stdin,                       \* typed characters not yet read by scanf
    command,                     \* command[] of the last interactive_loop
    confirmation,                \* confirmation[] of its prompt_confirmation
    branch,                      \* the branch it took
    calls,                       \* driver calls made by the last step of main
    msg,                         \* the last message it printed
    ret,                         \* what the last interactive_loop returned
    commands_read                \* number of calls of interactive_loop so far

vars == <<pc, status, exit_application, atecc608a_private_key_slot,
          atecc608a_public_key_slot, stdin, command, confirmation, branch,
          calls, msg, ret, commands_read>>

Init ==
    /\ pc = "info"
    /\ status = "unset"
    /\ exit_application = FALSE
    /\ atecc608a_private_key_slot = DefaultPrivateSlot
    /\ atecc608a_public_key_slot = DefaultPublicSlot
    /\ stdin = <<>>
    /\ command = <<>>
    /\ confirmation = <<>>
    /\ branch = "none"
    /\ calls = <<>>
    /\ msg = "none"
    /\ ret = "none"
    /\ commands_read = 0

session == <<atecc608a_private_key_slot, atecc608a_public_key_slot>>
loop_vars == <<stdin, command, confirmation, branch, msg, ret, commands_read>>

(***************************************************************************)
(* main.                                                                   *)
(***************************************************************************)
\* print_device_info();
MainInfo ==
    /\ pc = "info"
    /\ \E fail \in 1..(Len(print_locked_zones) + 1) :
          calls' = print_device_info(fail)
    /\ pc' = "init"
    /\ UNCHANGED <<status, exit_application, session, loop_vars>>

\* ASSERT_SUCCESS_PSA(psa_crypto_init());
MainInit ==
    /\ pc = "init"
    /\ \E result \in Statuses :
          LET a == ASSERT_SUCCESS_PSA(result)
          IN  /\ status' = a.status
              /\ pc' = IF a.exit THEN "done" ELSE "tests"
    /\ calls' = <<Call("psa_crypto_init", "main", {}, NoKey)>>
    /\ UNCHANGED <<exit_application, session, loop_vars>>

\* run_tests();
MainTests ==
    /\ pc = "tests"
    /\ \E fail \in 1..(NumTestSteps + 1) :
          calls' = run_tests(atecc608a_private_key_slot,
                             atecc608a_public_key_slot, fail).calls
    /\ pc' = "loop"
    /\ UNCHANGED <<status, exit_application, session, loop_vars>>

(***************************************************************************)
(* while (!exit_application) exit_application = interactive_loop();        *)
(***************************************************************************)
Branches ==
    {"info", "exit", "test", "generate_private", "generate_public",
     "write_lock_config", "lock_data", "private_slot", "public_slot",
     "unrecognized"}

\* scanf("%79s", command) on the unread input.
ReadCommand(input) == ScanfS(CommandWidth, input)

\* What scanf("%79s", command) reads once the user has typed a line, when
\* it found no token waiting: the white space left unread is skipped and
\* the line is what it scans.
LineReads == {ReadCommand(l \o <<"\n">>) : l \in Lines}

ReadsOf(b) == {in \in LineReads : Dispatch(in.str) = b} \cup {}

ReadsInfo == ReadsOf("info")
ReadsExit == ReadsOf("exit")
ReadsTest == ReadsOf("test")
ReadsGeneratePrivate == ReadsOf("generate_private")
ReadsGeneratePublic == ReadsOf("generate_public")
ReadsWriteLockConfig == ReadsOf("write_lock_config")
ReadsLockData == ReadsOf("lock_data")
ReadsPrivateSlot == ReadsOf("private_slot")
ReadsPublicSlot == ReadsOf("public_slot")
ReadsUnrecognized == ReadsOf("unrecognized")

ReadsByBranch(b) ==
    CASE b = "info" -> ReadsInfo
      [] b = "exit" -> ReadsExit
      [] b = "test" -> ReadsTest
      [] b = "generate_private" -> ReadsGeneratePrivate
      [] b = "generate_public" -> ReadsGeneratePublic
      [] b = "write_lock_config" -> ReadsWriteLockConfig
      [] b = "lock_data" -> ReadsLockData
      [] b = "private_slot" -> ReadsPrivateSlot
      [] b = "public_slot" -> ReadsPublicSlot
      [] OTHER -> ReadsUnrecognized

\* The command interactive_loop reads and the input it leaves unread, for
\* the commands that take branch b.  A token still unread is the command;
\* otherwise scanf blocks until the user has typed one of Lines.
Reads(input, b) ==
    IF NoToken(input) THEN ReadsByBranch(b)
    ELSE {in \in {ReadCommand(input)} : Dispatch(in.str) = b}

\* The answer prompt_confirmation reads, likewise.
TypedAnswer(input) == IF NoToken(input) THEN Answers ELSE {<<>>}

Entered(input, line) == IF line = <<>> THEN input ELSE input \o line \o <<"\n">>

\* The end of one call of interactive_loop and the loop test of main.
Return(cmd, rest, conf, r) ==
    /\ command' = cmd
    /\ stdin' = rest
    /\ confirmation' = conf
    /\ branch' = Dispatch(cmd)
    /\ calls' = r.calls
    /\ msg' = r.msg
    /\ ret' = r.ret
    /\ atecc608a_private_key_slot' = r.private
    /\ atecc608a_public_key_slot' = r.public
    /\ commands_read' = commands_read + 1
    /\ exit_application' = (r.ret = "true")
    /\ pc' = IF r.ret = "fault" THEN "fault"
             ELSE IF r.ret = "true" THEN "done"
             ELSE "loop"
    /\ UNCHANGED status

Reading == pc = "loop" /\ commands_read < MaxCommands

CmdInfo ==
    /\ Reading
    /\ \E in \in Reads(stdin, "info") :
          \E fail \in 1..(Len(print_locked_zones) + 1) :
                    Return(in.str, in.rest, <<>>,
                           Res("false", print_device_info(fail),
                               atecc608a_private_key_slot,
                               atecc608a_public_key_slot, "info"))

CmdExit ==
    /\ Reading
    /\ \E in \in Reads(stdin, "exit") :
          Return(in.str, in.rest, <<>>,
                        Res("true", <<>>, atecc608a_private_key_slot,
                            atecc608a_public_key_slot, "none"))

CmdTest ==
    /\ Reading
    /\ \E in \in Reads(stdin, "test") :
          \E fail \in 1..(NumTestSteps + 1) :
                    Return(in.str, in.rest, <<>>,
                           Res("false",
                               run_tests(atecc608a_private_key_slot,
                                         atecc608a_public_key_slot, fail).calls,
                               atecc608a_private_key_slot,
                               atecc608a_public_key_slot, "tests"))

CmdGeneratePrivate ==
    /\ Reading
    /\ \E in \in Reads(stdin, "generate_private") :
          \E r \in {HandleGeneratePrivate(in.str,
                                 atecc608a_private_key_slot,
                                 atecc608a_public_key_slot, st) :
                             st \in Statuses} :
                    Return(in.str, in.rest, <<>>, r)

CmdGeneratePublic ==
    /\ Reading
    /\ \E in \in Reads(stdin, "generate_public") :
          \E r \in {HandleGeneratePublic(in.str,
                                 atecc608a_private_key_slot,
                                 atecc608a_public_key_slot, a, b, exported, import) :
                             a \in AtoiArg(in.str),
                             b \in AtoiLastUnderscore(in.str),
                             exported \in ExportOutcomes,
                             import \in Statuses} :
                    Return(in.str, in.rest, <<>>, r)

CmdLock(kw, fn) ==
    /\ Reading
    /\ \E in \in Reads(stdin, kw) :
          \E answer \in TypedAnswer(in.rest) :
                    LET p == prompt_confirmation(Entered(in.rest, answer))
                    IN  \E r \in {HandleLock(fn, atecc608a_private_key_slot,
                                             atecc608a_public_key_slot,
                                             p.yes, st) : st \in Statuses} :
                           Return(in.str, p.rest, p.confirmation, r)

CmdWriteLockConfig == CmdLock("write_lock_config", "atecc608a_write_lock_config")

CmdLockData == CmdLock("lock_data", "atecc608a_lock_data_zone")

CmdPrivateSlot ==
    /\ Reading
    /\ \E in \in Reads(stdin, "private_slot") :
          \E r \in {HandlePrivateSlot(in.str, atecc608a_private_key_slot,
                                              atecc608a_public_key_slot, a) :
                             a \in AtoiArg(in.str)} :
                    Return(in.str, in.rest, <<>>, r)

CmdPublicSlot ==
    /\ Reading
    /\ \E in \in Reads(stdin, "public_slot") :
          \E r \in {HandlePublicSlot(in.str, atecc608a_private_key_slot,
                                              atecc608a_public_key_slot, a) :
                             a \in AtoiArg(in.str)} :
                    Return(in.str, in.rest, <<>>, r)

CmdUnrecognized ==
    /\ Reading
    /\ \E in \in Reads(stdin, "unrecognized") :
          Return(in.str, in.rest, <<>>,
                        Res("false", <<>>, atecc608a_private_key_slot,
                            atecc608a_public_key_slot, "unrecognized"))

Next ==
    \/ MainInfo
    \/ MainInit
    \/ MainTests
    \/ CmdInfo
    \/ CmdExit
    \/ CmdTest
    \/ CmdGeneratePrivate
    \/ CmdGeneratePublic
    \/ CmdWriteLockConfig
    \/ CmdLockData
    \/ CmdPrivateSlot
    \/ CmdPublicSlot
    \/ CmdUnrecognized

Spec == Init /\ [][Next]_vars

(***************************************************************************)
(* Properties.                                                             *)
(***************************************************************************)
\* A step of main that is one call of interactive_loop.
LoopStep == commands_read' = commands_read + 1

IsPrefix(p, s) == Len(s) >= Len(p) /\ SubSeq(s, 1, Len(p)) = p

InRange(n) == n \in 0..MaxSlot

OneArgLine(kw, n) == kw \o <<"=">> \o Numeral(n)

TwoArgLine(a, b) ==
    kw_generate_public \o <<"=">> \o Numeral(a) \o <<"_">> \o Numeral(b)

GenerateCall(n) == Call("p_generate", "interactive_loop", {n}, NoKey)

\* Lines of a slot-accepting command with a decimal argument outside 0..15.
OutOfRangeLines ==
    {OneArgLine(kw, n) : kw \in OneArgKeywords, n \in OutOfRange}
    \cup {TwoArgLine(p[1], p[2]) :
             p \in {q \in ArgPairs : ~InRange(q[1]) \/ ~InRange(q[2])}}

\* C1: a slot-accepting command whose decimal argument is outside 0..15
\* (negative, 16..65535, or 65536 and more) is rejected: interactive_loop
\* makes no driver call and changes neither session slot.
C1_OutOfRangeRejected ==
    [][(LoopStep /\ command' \in OutOfRangeLines)
          => calls' = <<>> /\ session' = session /\ ret' = "false"]_vars

\* C2 as stated: every slot number passed to a driver operation, by any
\* command and by the self-tests, is in 0..15.
C2_AllSlotsInRange ==
    \A i \in 1..Len(calls) : calls[i].slot \subseteq 0..MaxSlot

\* The first call test_generate_import makes: p_generate with bad_key_id.
IsBadKeyIdCall(i) ==
    /\ calls[i].by = "test_generate_import"
    /\ calls[i].fn = "p_generate"
    /\ calls[i].slot = {bad_key_id}
    /\ (i = 1 \/ calls[i - 1].by # "test_generate_import")

\* C2 amended: every slot number passed to a driver operation is in 0..15,
\* except in the first call of test_generate_import, which passes the
\* invalid slot 16 to p_generate on purpose.
C2_SlotsInRangeButBadKeyId ==
    \A i \in 1..Len(calls) :
        calls[i].slot \subseteq 0..MaxSlot \/ IsBadKeyIdCall(i)

\* The test command ran the self-tests to their end: the call with
\* bad_key_id was made, and so was the write to slot 8.
C2_Witness ==
    /\ command = kw_test
    /\ \E i \in 1..Len(calls) : IsBadKeyIdCall(i)
    /\ \E j \in 1..Len(calls) :
          calls[j].fn = "atecc608a_write" /\ calls[j].slot = {WriteReadSlot}

IrreversibleOps == {"atecc608a_write_lock_config", "atecc608a_lock_data_zone"}

LockCommandOf(fn) ==
    IF fn = "atecc608a_write_lock_config" THEN kw_write_lock_config
    ELSE kw_lock_data

SaidYes == confirmation # <<>> /\ confirmation[1] \in {"y", "Y"}

\* C3: atecc608a_write_lock_config and atecc608a_lock_data_zone are called
\* only by their own command and only after an answer starting with 'y' or
\* 'Y' was read; after any other answer the command makes no driver call,
\* leaves both session slots as they were and returns to the loop.
C3_LockOnlyAfterYes ==
    [][/\ \A i \in 1..Len(calls') :
             calls'[i].fn \in IrreversibleOps
                => /\ LoopStep
                   /\ command' = LockCommandOf(calls'[i].fn)
                   /\ SaidYes'
                   /\ Len(calls') = 1
       /\ (LoopStep /\ command' \in {kw_write_lock_config, kw_lock_data}
              /\ ~SaidYes')
             => /\ calls' = <<>>
                /\ session' = session
                /\ ret' = "false"
                /\ pc' = "loop"]_vars

\* lock_data was confirmed with "Y" and the data zone lock was called.
C3_Witness ==
    /\ command = kw_lock_data
    /\ confirmation = <<"Y">>
    /\ calls = <<Call("atecc608a_lock_data_zone", "interactive_loop", {}, NoKey)>>

\* C4: interactive_loop returns true exactly when the command is "exit";
\* for every other command it returns false and main reads another command.
C4_TrueIffExit ==
    commands_read > 0
       => /\ (ret = "true" <=> command = kw_exit)
          /\ (command # kw_exit => ret = "false" /\ pc = "loop")
          /\ (command = kw_exit => pc = "done" /\ exit_application)

\* C5: for N in 0..15, private_slot=N sets the private slot to N and leaves
\* the public slot; public_slot=N sets the public slot to N and leaves the
\* private slot; neither makes a driver call.
C5_SlotCommands ==
    [][LoopStep =>
          \A n \in 0..MaxSlot :
             /\ command' = OneArgLine(kw_private_slot, n)
                   => /\ atecc608a_private_key_slot' = n
                      /\ atecc608a_public_key_slot' = atecc608a_public_key_slot
                      /\ calls' = <<>>
             /\ command' = OneArgLine(kw_public_slot, n)
                   => /\ atecc608a_public_key_slot' = n
                      /\ atecc608a_private_key_slot' = atecc608a_private_key_slot
                      /\ calls' = <<>>]_vars

\* public_slot=15 was read after private_slot=15.
C5_Witness ==
    /\ command = OneArgLine(kw_public_slot, MaxSlot)
    /\ atecc608a_public_key_slot = MaxSlot
    /\ atecc608a_private_key_slot = MaxSlot

\* C6: for N in 0..15, generate_private=N makes exactly one driver call,
\* p_generate with slot N; generate_private alone makes exactly one, with
\* slot 0; the session slots are unchanged.
C6_GeneratePrivate ==
    [][LoopStep =>
          /\ \A n \in 0..MaxSlot :
                command' = OneArgLine(kw_generate_private, n)
                   => calls' = <<GenerateCall(n)>> /\ session' = session
          /\ command' = kw_generate_private
                => calls' = <<GenerateCall(0)>> /\ session' = session]_vars

\* generate_private=3 was read after private_slot=3.
C6_Witness ==
    /\ command = OneArgLine(kw_generate_private, 3)
    /\ atecc608a_private_key_slot = 3
    /\ calls = <<GenerateCall(3)>>

C8_ExitStatus ==
    /\ pc = "done"
          => \/ /\ status \in Errors
                /\ commands_read = 0
                /\ calls = <<Call("psa_crypto_init", "main", {}, NoKey)>>
             \/ /\ status = PSA_SUCCESS
                /\ command = kw_exit
    /\ pc # "fault"

CompleteKeyword(b) ==
    CASE b = "generate_private" -> kw_generate_private
      [] b = "generate_public" -> kw_generate_public
      [] b = "private_slot" -> kw_private_slot
      [] b = "public_slot" -> kw_public_slot

PrefixBranches == {"generate_private", "generate_public", "private_slot", "public_slot"}

\* C9: a line takes the generate_private, generate_public, private_slot or
\* public_slot branch only if it begins with that whole keyword; a line
\* that is none of info, exit, test, write_lock_config, lock_data and begins
\* with none of the four keywords is reported as unrecognized, with no
\* driver call and no change of the session slots.
C9_CompleteKeyword ==
    [][LoopStep =>
          /\ branch' \in PrefixBranches
                => IsPrefix(CompleteKeyword(branch'), command')
          /\ (/\ command' \notin ExactLines
              /\ \A kw \in SlotKeywords : ~IsPrefix(kw, command'))
                => /\ msg' = "unrecognized"
                   /\ calls' = <<>>
                   /\ session' = session]_vars

TemplateOf(b) ==
    CASE b = "generate_public" -> tpl_generate_public
      [] b = "private_slot" -> tpl_private_slot
      [] b = "public_slot" -> tpl_public_slot

\* The argument text of a command is malformed or incomplete: the command
\* is shorter than the minimal template, or has no '=', or (generate_public)
\* has no '_' after the '='.
Malformed(b, c) ==
    \/ Len(c) < Len(TemplateOf(b))
    \/ \A i \in 1..Len(c) : c[i] # "="
    \/ /\ b = "generate_public"
       /\ \E i \in 1..Len(c) :
             c[i] = "=" /\ \A j \in (i + 1)..Len(c) : c[j] # "_"

\* C10: a line that takes the generate_public, private_slot or public_slot
\* branch with malformed or incomplete argument text is rejected: a message
\* is printed, no driver call is made, the session slots are unchanged and
\* control returns to the command loop.
C10_MalformedRejected ==
    [][(/\ LoopStep
        /\ branch' \in {"generate_public", "private_slot", "public_slot"}
        /\ Malformed(branch', command'))
          => /\ msg' \in {"missing argument", "invalid slot"}
             /\ calls' = <<>>
             /\ session' = session
             /\ ret' = "false"
             /\ pc' = "loop"]_vars

\* C11: a line yields at most one command: when interactive_loop has read a
\* command that fills the buffer (79 characters), the rest of its line is
\* discarded, so no token of it is left unread for a later scanf, be it
\* that of the next command or that of a confirmation prompt.
C11_ExcessDiscarded ==
    [][(LoopStep /\ NoToken(stdin) /\ Len(command') = CommandWidth)
          => NoToken(stdin')]_vars

RECURSIVE Flatten(_)
Flatten(seqs) == IF seqs = <<>> THEN <<>> ELSE Head(seqs) \o Flatten(Tail(seqs))

\* The asserted calls of a complete run of the tests, in the order hash
\* test, config-zone check, test_generate_import, test_export_import,
\* test_sign_verify, test_psa_import_verify, data-zone check,
\* test_write_read_slot(8).
FullRun ==
    Flatten(<<test_hash_sha256,
              check_config_locked,
              test_generate_import(atecc608a_private_key_slot,
                                   atecc608a_public_key_slot),
              test_export_import(atecc608a_private_key_slot,
                                 atecc608a_public_key_slot),
              test_sign_verify(atecc608a_private_key_slot,
                               atecc608a_public_key_slot),
              test_psa_import_verify(atecc608a_private_key_slot),
              check_data_locked,
              test_write_read_slot(8)>>)

\* A step of main that runs run_tests: at startup or for the test command.
TestsStep == pc = "tests" \/ (LoopStep /\ branch' = "test")

KeyTests ==
    {"test_generate_import", "test_export_import", "test_sign_verify",
     "test_psa_import_verify"}

\* C12: run_tests makes its asserted calls in the fixed order and stops at
\* the first one that fails: the calls made are a prefix of the complete
\* run, every call but the last returned what was expected, and the run is
\* cut short only by a failed call.  So a key test runs only after both
\* hash checks and the config-zone check passed, and the write/read test
\* only after the data-zone check and every earlier call passed.  Whatever
\* the outcome, main goes on to read commands.
C12_TestsFailFast ==
    [][TestsStep =>
          LET n == Len(calls')
          IN  /\ n >= 1 /\ n <= Len(FullRun)
              /\ \A i \in 1..n : [calls'[i] EXCEPT !.ok = TRUE] = FullRun[i]
              /\ \A i \in 1..(n - 1) : calls'[i].ok
              /\ n < Len(FullRun) => ~calls'[n].ok
              /\ \A i \in 1..n :
                    calls'[i].by \in KeyTests
                       => /\ i > 3
                          /\ calls'[3].fn = "atecc608a_check_zone_locked(LOCK_ZONE_CONFIG)"
                          /\ \A j \in 1..3 : calls'[j].ok
              /\ \A i \in 1..n :
                    calls'[i].by = "test_write_read_slot"
                       => \E d \in 1..(i - 1) :
                             /\ calls'[d].fn = "atecc608a_check_zone_locked(LOCK_ZONE_DATA)"
                             /\ \A j \in 1..(i - 1) : calls'[j].ok
              /\ pc' = "loop"
              /\ ~exit_application'
              /\ session' = session]_vars

\* The test command has run on a device whose data zone is not locked: the
\* key tests passed, the data-zone check failed and the write/read test
\* did not run; the session goes on.
C12_Witness ==
    /\ pc = "loop"
    /\ branch = "test"
    /\ Len(calls) = NumTestSteps - Len(test_write_read_slot(WriteReadSlot))
    /\ calls[Len(calls)].fn = "atecc608a_check_zone_locked(LOCK_ZONE_DATA)"
    /\ ~calls[Len(calls)].ok
    /\ \E i \in 1..Len(calls) : calls[i].by = "test_psa_import_verify"

\* Messages of a command that was turned down or did not succeed.
RejectionMessages == {"invalid slot", "missing argument", "unrecognized", "failed"}

\* C13: the session slots start at 0 and 9 and are in 0..15 in every
\* reachable state; the private slot changes only in a private_slot command
\* that sets it and the public slot only in a public_slot command that sets
\* it; startup, info, test, exit, generate_private, generate_public,
\* write_lock_config, lock_data, unrecognized commands and every command
\* that is rejected leave both unchanged.
C13_SessionSlots ==
    /\ atecc608a_private_key_slot = 0 /\ atecc608a_public_key_slot = 9
    /\ [](/\ atecc608a_private_key_slot \in 0..15
          /\ atecc608a_public_key_slot \in 0..15)
    /\ [][/\ atecc608a_private_key_slot' # atecc608a_private_key_slot
             => LoopStep /\ branch' = "private_slot" /\ msg' = "slot set"
          /\ atecc608a_public_key_slot' # atecc608a_public_key_slot
             => LoopStep /\ branch' = "public_slot" /\ msg' = "slot set"
          /\ (LoopStep /\ msg' \in RejectionMessages) => session' = session
          /\ (LoopStep /\ branch' \notin {"private_slot", "public_slot"})
                => session' = session]_vars

\* private_slot=15 was accepted, then private_slot=16 was rejected and left
\* the private slot at 15.
C13_Witness ==
    /\ command = OneArgLine(kw_private_slot, 16)
    /\ msg = "invalid slot"
    /\ atecc608a_private_key_slot = 15
    /\ atecc608a_public_key_slot = 9
====
